---- MODULE Spec2Model ----
(***************************************************************************)
(* IndeedBot: the paginated listing extraction pipeline of                 *)
(* IndeedBot.get_job_posts and the Query loop of IndeedBot.main.           *)
(*                                                                         *)
(* Text is modelled as TLA+ strings, one character per position, and the   *)
(* str methods the code calls (replace, strip, re.findall, int, round)     *)
(* are operators that compute what the Python built-ins compute.           *)
(***************************************************************************)
EXTENDS Integers, Sequences, FiniteSets, TLC

(***************************************************************************)
(* Bounds of the model.                                                    *)
(***************************************************************************)
\* The site lists at most MaxJobs cards over the result pages of one run.
MaxJobs == 2

(***************************************************************************)
(* Program constants.                                                      *)
(***************************************************************************)
InitialPages == 5
DefaultPages == 25
StartJobCount == 1510
StartPagesScraped == 151
JobsPerPageLogged == 15
Stride == 10

(***************************************************************************)
(* Python string built-ins.                                                *)
(***************************************************************************)
DigitChars == {"0", "1", "2", "3", "4", "5", "6", "7", "8", "9"}
Whitespace == {" ", "\n", "\t"}

CharAt(s, k) == SubSeq(s, k, k)

\* str.replace(old, new): left to right, non-overlapping, old non-empty.
RECURSIVE Replace(_, _, _)
Replace(s, old, new) ==
    IF Len(s) < Len(old) THEN s
    ELSE IF SubSeq(s, 1, Len(old)) = old
         THEN new \o Replace(SubSeq(s, Len(old) + 1, Len(s)), old, new)
         ELSE CharAt(s, 1) \o Replace(SubSeq(s, 2, Len(s)), old, new)

RECURSIVE LStrip(_)
LStrip(s) ==
    IF s # "" /\ CharAt(s, 1) \in Whitespace THEN LStrip(SubSeq(s, 2, Len(s))) ELSE s

RECURSIVE RStrip(_)
RStrip(s) ==
    IF s # "" /\ CharAt(s, Len(s)) \in Whitespace
    THEN RStrip(SubSeq(s, 1, Len(s) - 1)) ELSE s

\* str.strip()
Strip(s) == RStrip(LStrip(s))

\* Length of the run of digits that starts at position k of s.
RECURSIVE DigitRun(_, _)
DigitRun(s, k) ==
    IF k <= Len(s) /\ CharAt(s, k) \in DigitChars THEN 1 + DigitRun(s, k + 1) ELSE 0

\* re.findall(r'\d+', s): the maximal runs of digits of s, left to right.
RECURSIVE FindAllDigits(_)
FindAllDigits(s) ==
    IF s = "" THEN << >>
    ELSE LET n == DigitRun(s, 1) IN
         IF n = 0 THEN FindAllDigits(SubSeq(s, 2, Len(s)))
         ELSE <<SubSeq(s, 1, n)>> \o FindAllDigits(SubSeq(s, n + 1, Len(s)))

DigitValue(c) ==
    CASE c = "0" -> 0 [] c = "1" -> 1 [] c = "2" -> 2 [] c = "3" -> 3 [] c = "4" -> 4
      [] c = "5" -> 5 [] c = "6" -> 6 [] c = "7" -> 7 [] c = "8" -> 8 [] c = "9" -> 9

\* int(d) for a string of decimal digits.
RECURSIVE ToInt(_)
ToInt(d) ==
    IF d = "" THEN 0
    ELSE 10 * ToInt(SubSeq(d, 1, Len(d) - 1)) + DigitValue(CharAt(d, Len(d)))

RoundTenthHalfUp(n) == IF n % 10 >= 5 THEN (n \div 10) + 1 ELSE n \div 10
\* round(n / 10): Python 3 rounds a tie to the even neighbour.
RoundTenth(n) ==
    LET q == n \div 10
        r == n % 10
    IN  IF r < 5 THEN q
        ELSE IF r > 5 THEN q + 1
        ELSE IF q % 2 = 0 THEN q ELSE q + 1

(***************************************************************************)
(* Total-count discovery (get_job_posts, the two nested try blocks).       *)
(***************************************************************************)
Absent == "<absent>"

\* The text of a count indicator with ',', 'Page 1 of' and 'jobs' removed.
CountText(text) == Replace(Replace(Replace(text, ",", ""), "Page 1 of", ""), "jobs", "")

\* The try block raises when the wait times out or total_jobs[0] is an IndexError.
CountRaises(indicator) ==
    \/ indicator = Absent
    \/ FindAllDigits(CountText(indicator)) = << >>

CountTotalJobs(indicator) == FindAllDigits(CountText(indicator))[1]

CountPages(indicator) == RoundTenth(ToInt(CountTotalJobs(indicator)))

(***************************************************************************)
(* The remote site, as the driver sees it.                                 *)
(*                                                                         *)
(* A results page is a list of cards in DOM order; a card says which       *)
(* of the elements the code looks up it holds, and whether its detail      *)
(* panel is rendered in the embedded frame and shows a ratings count.      *)
(***************************************************************************)
Full ==
    [title |-> TRUE, salary |-> TRUE, location |-> TRUE, metadata |-> TRUE,
     date |-> TRUE, company |-> TRUE, frame |-> TRUE, ratings |-> TRUE]
NoTitle ==
    [title |-> FALSE, salary |-> TRUE, location |-> TRUE, metadata |-> TRUE,
     date |-> TRUE, company |-> TRUE, frame |-> TRUE, ratings |-> TRUE]
Sparse ==
    [title |-> TRUE, salary |-> FALSE, location |-> TRUE, metadata |-> FALSE,
     date |-> FALSE, company |-> FALSE, frame |-> FALSE, ratings |-> FALSE]
Inline ==
    [title |-> TRUE, salary |-> TRUE, location |-> TRUE, metadata |-> TRUE,
     date |-> TRUE, company |-> TRUE, frame |-> FALSE, ratings |-> TRUE]
CardShapes == {Full, NoTitle, Sparse, Inline}

\* The result pages that list at most k cards.
Pages(k) == UNION {[1..m -> CardShapes] : m \in 0..k}

\* Texts of the elements of the card at DOM position j (0-based, as in the code).
TitleText(j) == "Developer " \o ToString(j + 1)
TitleHref(j) == "https://ca.indeed.com/rc/clk?jk=" \o ToString(j + 1)
SalaryText(j) == " $" \o ToString(j + 1) \o "0\nan hour "
LocationText(j) == "Toronto, ON\n+" \o ToString(j + 1) \o " locations"
MetadataText(j) == "Job type:\nPart-time +" \o ToString(j + 1) \o " "
DateText(j) == "Posted\nPosted " \o ToString(j + 1) \o " days ago"
CompanyText(j) == "Acme " \o ToString(j + 1)
RatingsText(j) == ToString(j + 1) \o " reviews"

\* Count indicators of the search page: the main run and the count-discovery run.
PrimaryIndicators ==
    {Absent, "jobs", "1,234 jobs Page 1 of", "Page 1 of 1,525 jobs", "1,530 jobs"}
SecondaryIndicators == {Absent, "Page 1 of 1,515 jobs"}
IndicatorTexts ==
    {Absent, "", "jobs", "Page 1 of", "1,234 jobs Page 1 of", "Page 1 of 1,234 jobs",
     "Page 2 of 1,234 jobs", "1,515 jobs", "1,525 jobs", "1,526 jobs", "4 jobs",
     "5 jobs", "15 jobs", "12jobs34", "1,000,006 jobs", "Page 1 of 30 jobs"}

\* Query source: the City column of Cities.csv, in file order.
Cities == <<"Toronto", "Ottawa">>

(***************************************************************************)
(* Durable store: one CSV file per city.                                   *)
(***************************************************************************)
Columns ==
    <<"Job Title", "Salary", "Job Type", "Location", "Company Name", "Date Posted",
      "Reviews", "Job URL", "Listing URL">>

NoFile == [exists |-> FALSE, rows |-> << >>]
HeaderRow == [kind |-> "header", cells |-> Columns]
RecordRow(job_post) == [kind |-> "record", cells |-> [k \in 1..Len(Columns) |-> job_post[Columns[k]]]]

\* A file left by an earlier run: a header and one record.
EarlierFile ==
    [exists |-> TRUE,
     rows |-> <<HeaderRow, [kind |-> "record", cells |-> [k \in 1..Len(Columns) |-> "earlier"]]>>]

\* df.to_csv(file_city, ...) of the one-row frame, by os.path.isfile(file_city).
ToCsvAlwaysHeader(file, job_post) ==
    [exists |-> TRUE, rows |-> file.rows \o <<HeaderRow, RecordRow(job_post)>>]
ToCsv(file, job_post) ==
    IF ~file.exists
    THEN [exists |-> TRUE, rows |-> <<HeaderRow, RecordRow(job_post)>>]
    ELSE [exists |-> TRUE, rows |-> file.rows \o <<RecordRow(job_post)>>]

(***************************************************************************)
(* State.                                                                  *)
(***************************************************************************)
VARIABLES
    pc,                \* position of the single thread of control
    qi,                \* main: number of cities taken from the list so far
    jobCount,          \* DOM: text of the primary count indicator, or Absent
    searchCountPages,  \* DOM: text of the secondary count indicator, or Absent
    cards,             \* DOM: the cards of the results page
    selected,          \* DOM: position of the card shown in the detail panel, -1 if none
    ctx,               \* driver: "default" or "frame"
    number_of_pages, total_jobs, job_count, pages_scraped, jobs_scraped,
    page,              \* next value of range(pages_scraped, number_of_pages)
    i,                 \* enumerate index of the card loop
    fields,            \* job_title, company_name, ..., listing_url
    store,             \* city -> CSV file
    navs,              \* history: start offsets requested for the current Query
    started,           \* history: cities whose pipeline was started
    emitted,           \* history: records handed to the sink by the current Query
    missed,            \* history: fields whose extraction raised on the current card
    enters, exits,     \* history: context entry attempts / exit calls of the Query
    file0,             \* history: the city's file when the Query started
    listed,            \* history: cards listed by the result pages of the run
    failure            \* history: what raised out of main, "none" if nothing

vars ==
    <<pc, qi, jobCount, searchCountPages, cards, selected, ctx, number_of_pages,
      total_jobs, job_count, pages_scraped, jobs_scraped, page, i, fields, store,
      navs, started, emitted, missed, enters, exits, file0, listed, failure>>

dom == <<jobCount, searchCountPages, cards, selected>>
pagination == <<number_of_pages, total_jobs, job_count, pages_scraped, jobs_scraped, page>>
history == <<navs, started, emitted, missed, enters, exits, file0, listed, failure>>

Unbound == "<unbound>"
FieldNames ==
    {"job_title", "company_name", "location", "salary", "job_type", "date_posted",
     "contact", "reviews", "job_url", "listing_url"}
EmptyFields == [f \in FieldNames |-> ""]

city == Cities[qi]

Init ==
    /\ pc = "main"
    /\ qi = 0
    /\ jobCount = Absent
    /\ searchCountPages = Absent
    /\ cards = << >>
    /\ selected = -1
    /\ ctx = "default"
    /\ number_of_pages = 0
    /\ total_jobs = Unbound
    /\ job_count = 0
    /\ pages_scraped = 0
    /\ jobs_scraped = 0
    /\ page = 0
    /\ i = 0
    /\ fields = EmptyFields
    /\ store \in [{Cities[k] : k \in 1..Len(Cities)} -> {NoFile, EarlierFile}]
    /\ navs = << >>
    /\ started = << >>
    /\ emitted = << >>
    /\ missed = {}
    /\ enters = 0
    /\ exits = 0
    /\ file0 = NoFile
    /\ listed = 0
    /\ failure = "none"

(***************************************************************************)
(* An exception no try block catches leaves get_job_posts and main.        *)
(***************************************************************************)
RaiseCaughtByMain(cause) ==
    /\ pc' = "main"
    /\ failure' = cause
Raise(cause) ==
    /\ pc' = "crashed"
    /\ failure' = cause

(***************************************************************************)
(* main: for city in cities: self.get_job_posts(city=city)                 *)
(***************************************************************************)
\* Next city; get_job_posts up to driver.get(url_final).
StartQuery ==
    /\ pc = "main"
    /\ qi < Len(Cities)
    /\ qi' = qi + 1
    /\ started' = Append(started, Cities[qi + 1])
    /\ file0' = store[Cities[qi + 1]]
    /\ emitted' = << >>
    /\ missed' = {}
    /\ enters' = 0
    /\ exits' = 0
    /\ cards' = << >>
    /\ selected' = -1
    /\ i' = 0
    /\ fields' = EmptyFields
    /\ number_of_pages' = 0
    /\ total_jobs' = Unbound
    /\ job_count' = 0
    /\ pages_scraped' = 0
    /\ jobs_scraped' = 0
    /\ page' = 0
    /\ ctx' = "default"
    /\ UNCHANGED <<store, listed>>
    /\ \/ /\ navs' = <<0>>
          /\ jobCount' \in PrimaryIndicators
          /\ searchCountPages' \in SecondaryIndicators
          /\ pc' = "results"
          /\ UNCHANGED failure
       \/ /\ navs' = << >>
          /\ UNCHANGED <<jobCount, searchCountPages>>
          /\ Raise("session")

MainDone ==
    /\ pc = "main"
    /\ qi = Len(Cities)
    /\ pc' = "done"
    /\ UNCHANGED <<qi, dom, ctx, pagination, i, fields, store, history>>

(***************************************************************************)
(* get_job_posts: the search page and the total-count discovery.           *)
(***************************************************************************)
\* wait_until_visible(results list) is called outside any try block.
ResultsTimeoutSwallowed(resume) ==
    /\ pc' = resume
    /\ failure' = "visibility"
ResultsTimeout(resume) == Raise("visibility")

\* Line 197: wait for the results list of the search page; line 200.
WaitResults ==
    /\ pc = "results"
    /\ \/ /\ pc' = "count"
          /\ number_of_pages' = InitialPages
          /\ UNCHANGED failure
       \/ /\ ResultsTimeout("count")
          /\ UNCHANGED number_of_pages
    /\ UNCHANGED <<qi, dom, ctx, total_jobs, job_count, pages_scraped, jobs_scraped,
                   page, i, fields, store, navs, started, emitted, missed, enters,
                   exits, file0, listed>>

\* total_jobs as the try block leaves it when it raises: untouched when the
\* wait timed out, the empty findall list when total_jobs[0] raised.
TotalJobsAfterRaise(indicator, before) == IF indicator = Absent THEN before ELSE "[]"

\* Lines 202-211: the primary count indicator.
CountPrimary ==
    /\ pc = "count"
    /\ IF CountRaises(jobCount)
       THEN /\ total_jobs' = TotalJobsAfterRaise(jobCount, total_jobs)
            /\ UNCHANGED number_of_pages
            /\ pc' = "count2"
       ELSE /\ total_jobs' = CountTotalJobs(jobCount)
            /\ number_of_pages' = CountPages(jobCount)
            /\ pc' = "checkpoint"
    /\ UNCHANGED <<qi, dom, ctx, job_count, pages_scraped, jobs_scraped, page, i,
                   fields, store, history>>

\* Lines 212-223: the secondary count indicator, then the fixed default.
CountSecondary ==
    /\ pc = "count2"
    /\ IF CountRaises(searchCountPages)
       THEN /\ total_jobs' = TotalJobsAfterRaise(searchCountPages, total_jobs)
            /\ number_of_pages' = DefaultPages
       ELSE /\ total_jobs' = CountTotalJobs(searchCountPages)
            /\ number_of_pages' = CountPages(searchCountPages)
    /\ pc' = "checkpoint"
    /\ UNCHANGED <<qi, dom, ctx, job_count, pages_scraped, jobs_scraped, page, i,
                   fields, store, history>>

(***************************************************************************)
(* get_job_posts: the page loop.                                           *)
(***************************************************************************)
CheckpointFromZero == [job_count |-> 0, pages_scraped |-> 0]
Checkpoint == [job_count |-> StartJobCount, pages_scraped |-> StartPagesScraped]

\* Lines 224-227: the checkpoint, and range(pages_scraped, number_of_pages).
SeedCheckpoint ==
    /\ pc = "checkpoint"
    /\ job_count' = Checkpoint.job_count
    /\ pages_scraped' = Checkpoint.pages_scraped
    /\ jobs_scraped' = Checkpoint.pages_scraped * JobsPerPageLogged
    /\ page' = Checkpoint.pages_scraped
    /\ pc' = "loop"
    /\ UNCHANGED <<qi, dom, ctx, number_of_pages, total_jobs, i, fields, store, history>>

AdvanceJobCountByJobs(n) == n + JobsPerPageLogged
AdvanceJobCount(n) == n + Stride

\* Lines 227-236: the range yields a page; navigate, advance, reset the fields.
\* driver.get replaces the document (its cards are listed at line 238) and
\* makes the top-level document the active context.
NextPage ==
    /\ pc = "loop"
    /\ page < number_of_pages
    /\ \/ /\ navs' = Append(navs, job_count)
          /\ page' = page + 1
          /\ job_count' = AdvanceJobCount(job_count)
          /\ pages_scraped' = pages_scraped + 1
          /\ jobs_scraped' = jobs_scraped + JobsPerPageLogged
          /\ fields' = EmptyFields
          /\ jobCount' = Absent
          /\ searchCountPages' = Absent
          /\ cards' = << >>
          /\ selected' = -1
          /\ ctx' = "default"
          /\ pc' = "wait_page"
          /\ UNCHANGED failure
       \/ /\ Raise("session")
          /\ UNCHANGED <<dom, ctx, job_count, pages_scraped, jobs_scraped, page, fields,
                         navs>>
    /\ UNCHANGED <<qi, number_of_pages, total_jobs, i, store, started, emitted, missed,
                   enters, exits, file0, listed>>

\* The range is exhausted: get_job_posts returns to main.
ReturnToMain ==
    /\ pc = "loop"
    /\ page >= number_of_pages
    /\ pc' = "main"
    /\ UNCHANGED <<qi, dom, ctx, pagination, i, fields, store, history>>

\* Lines 237-238: wait for the results list, then list the cards of the page.
WaitResultsPage ==
    /\ pc = "wait_page"
    /\ \/ /\ cards' \in Pages(MaxJobs - listed)
          /\ listed' = listed + Len(cards')
          /\ i' = 0
          /\ pc' = IF cards' = << >> THEN "loop" ELSE "select"
          /\ UNCHANGED failure
       \/ /\ ResultsTimeout("loop")
          /\ UNCHANGED <<cards, i, listed>>
    /\ UNCHANGED <<qi, jobCount, searchCountPages, selected, ctx, pagination, fields,
                   store, navs, started, emitted, missed, enters, exits, file0>>

(***************************************************************************)
(* get_job_posts: one card.                                                *)
(***************************************************************************)
\* driver.find_elements(selector): DOM positions (0-based) of the cards of the
\* page that hold the element, in DOM order.
FindElements(element) ==
    LET positions == [k \in 1..Len(cards) |-> k - 1]
    IN  SelectSeq(positions, LAMBDA k : cards[k + 1][element])

\* find_elements(selector)[i] raises IndexError.
IndexRaises(element) == i >= Len(FindElements(element))
\* The DOM position of find_elements(selector)[i].
ElementAt(element) == FindElements(element)[i + 1]

\* wait_until_visible(selector) times out: no such element on the page.
WaitRaises(element) == FindElements(element) = << >>

\* Lines 241-263: locate card i again, scroll to it, and the best-effort clicks.
\* Neither the lookup of line 241 nor the script of line 243 is in a try block.
SelectCard ==
    /\ pc = "select"
    /\ missed' = {}
    /\ \/ /\ Raise("relocate")
          /\ UNCHANGED selected
       \/ /\ ctx = "default"
          /\ Raise("scroll")
          /\ UNCHANGED selected
       \/ /\ ctx = "default"
          /\ \E clicked \in BOOLEAN : selected' = IF clicked THEN i ELSE selected
          /\ pc' = "job_title"
          /\ UNCHANGED failure
    /\ UNCHANGED <<qi, jobCount, searchCountPages, cards, ctx, pagination, i, fields,
                   store, navs, started, emitted, enters, exits, file0, listed>>

\* What every field step leaves alone.
FieldStepUnchanged ==
    UNCHANGED <<qi, dom, ctx, pagination, i, store, navs, started, emitted, enters,
                exits, file0, listed, failure>>

\* Lines 265-268
ExtractJobTitle ==
    /\ pc = "job_title"
    /\ IF IndexRaises("title")
       THEN /\ missed' = missed \cup {"job_title"}
            /\ UNCHANGED fields
       ELSE /\ fields' = [fields EXCEPT !.job_title = TitleText(ElementAt("title"))]
            /\ UNCHANGED missed
    /\ pc' = "listing_url"
    /\ FieldStepUnchanged

\* Lines 269-272
ExtractListingUrl ==
    /\ pc = "listing_url"
    /\ IF IndexRaises("title")
       THEN /\ missed' = missed \cup {"listing_url"}
            /\ UNCHANGED fields
       ELSE /\ fields' = [fields EXCEPT !.listing_url = TitleHref(ElementAt("title"))]
            /\ UNCHANGED missed
    /\ pc' = "salary"
    /\ FieldStepUnchanged

\* Lines 273-276
ExtractSalary ==
    /\ pc = "salary"
    /\ IF IndexRaises("salary")
       THEN /\ missed' = missed \cup {"salary"}
            /\ UNCHANGED fields
       ELSE /\ fields' = [fields EXCEPT !.salary =
                            Replace(Strip(SalaryText(ElementAt("salary"))), "\n", " ")]
            /\ UNCHANGED missed
    /\ pc' = "location"
    /\ FieldStepUnchanged

\* Lines 277-280
ExtractLocation ==
    /\ pc = "location"
    /\ IF IndexRaises("location")
       THEN /\ missed' = missed \cup {"location"}
            /\ UNCHANGED fields
       ELSE /\ fields' = [fields EXCEPT !.location =
                            Replace(Strip(LocationText(ElementAt("location"))), "\n", " ")]
            /\ UNCHANGED missed
    /\ pc' = "job_type"
    /\ FieldStepUnchanged

\* Lines 281-284
ExtractJobType ==
    /\ pc = "job_type"
    /\ IF IndexRaises("metadata")
       THEN /\ missed' = missed \cup {"job_type"}
            /\ fields' = [fields EXCEPT !.job_type = "Full-Time"]
       ELSE /\ fields' = [fields EXCEPT !.job_type =
                            Strip(Replace(Replace(Replace(
                                Strip(MetadataText(ElementAt("metadata"))),
                                "\n", " "), ":", ""), "Job type", ""))]
            /\ UNCHANGED missed
    /\ pc' = "date_posted"
    /\ FieldStepUnchanged

\* Lines 285-290
ExtractDatePosted ==
    /\ pc = "date_posted"
    /\ IF WaitRaises("date") \/ IndexRaises("date")
       THEN /\ missed' = missed \cup {"date_posted"}
            /\ fields' = [fields EXCEPT !.date_posted = "Today"]
       ELSE /\ fields' = [fields EXCEPT !.date_posted =
                            Replace(Replace(Strip(DateText(ElementAt("date"))),
                                            "\n", " "), "Posted", "")]
            /\ UNCHANGED missed
    /\ pc' = "company_name"
    /\ FieldStepUnchanged

\* Lines 291-298: the company name is looked up inside card i; job_url is
\* assigned in the same try block, after the lookup.
ExtractCompanyName ==
    /\ pc = "company_name"
    /\ IF WaitRaises("company") \/ ~cards[i + 1].company
       THEN /\ missed' = missed \cup {"company_name", "job_url"}
            /\ UNCHANGED fields
       ELSE /\ fields' = [fields EXCEPT !.company_name = CompanyText(i),
                                        !.job_url = fields.listing_url]
            /\ UNCHANGED missed
    /\ pc' = "enter"
    /\ FieldStepUnchanged

\* The detail panel shows the card last clicked, in the frame or inline.
PanelHas(element) == selected >= 0 /\ cards[selected + 1][element]

\* Lines 299-308: wait for the frame and switch into it; any raise is swallowed.
EnterDetail ==
    /\ pc = "enter"
    /\ enters' = enters + 1
    /\ \/ /\ PanelHas("frame")
          /\ ctx' = "frame"
       \/ UNCHANGED ctx
    /\ pc' = "reviews"
    /\ UNCHANGED <<qi, dom, pagination, i, fields, store, navs, started, emitted,
                   missed, exits, file0, listed, failure>>

\* The ratings count is visible in the active context.
RatingsVisible ==
    /\ PanelHas("ratings")
    /\ ctx = IF PanelHas("frame") THEN "frame" ELSE "default"

\* Lines 309-313
ExtractReviews ==
    /\ pc = "reviews"
    /\ IF RatingsVisible
       THEN /\ fields' = [fields EXCEPT !.reviews = RatingsText(selected)]
            /\ UNCHANGED missed
       ELSE /\ fields' = [fields EXCEPT !.reviews = "Reviews Not Found"]
            /\ missed' = missed \cup {"reviews"}
    /\ pc' = "exit"
    /\ FieldStepUnchanged

\* Lines 314-320: switch_to.default_content(); a raise is swallowed.
ExitDetail ==
    /\ pc = "exit"
    /\ exits' = exits + 1
    /\ \/ ctx' = "default"
       \/ /\ ctx = "frame"
          /\ UNCHANGED ctx
    /\ pc' = "save"
    /\ UNCHANGED <<qi, dom, pagination, i, fields, store, navs, started, emitted,
                   missed, enters, file0, listed, failure>>

\* Lines 322-324
JobPost ==
    [c \in {Columns[k] : k \in 1..Len(Columns)} |->
        CASE c = "Job Title" -> fields.job_title
          [] c = "Salary" -> fields.salary
          [] c = "Job Type" -> fields.job_type
          [] c = "Location" -> fields.location
          [] c = "Company Name" -> fields.company_name
          [] c = "Date Posted" -> fields.date_posted
          [] c = "Reviews" -> fields.reviews
          [] c = "Job URL" -> fields.job_url
          [] c = "Listing URL" -> fields.listing_url]

\* Lines 321-332, and the step of the card loop.
SaveRecord ==
    /\ pc = "save"
    /\ store' = [store EXCEPT ![city] = ToCsv(store[city], JobPost)]
    /\ emitted' = Append(emitted, [post |-> JobPost, missed |-> missed,
                                   start |-> navs[Len(navs)], index |-> i, ctx |-> ctx])
    /\ i' = i + 1
    /\ pc' = IF i + 1 < Len(cards) THEN "select" ELSE "loop"
    /\ UNCHANGED <<qi, dom, ctx, pagination, fields, navs, started, missed, enters,
                   exits, file0, listed, failure>>

(***************************************************************************)
(* Specifications.                                                         *)
(***************************************************************************)
Next ==
    \/ StartQuery
    \/ MainDone
    \/ WaitResults
    \/ CountPrimary
    \/ CountSecondary
    \/ SeedCheckpoint
    \/ NextPage
    \/ ReturnToMain
    \/ WaitResultsPage
    \/ SelectCard
    \/ ExtractJobTitle
    \/ ExtractListingUrl
    \/ ExtractSalary
    \/ ExtractLocation
    \/ ExtractJobType
    \/ ExtractDatePosted
    \/ ExtractCompanyName
    \/ EnterDetail
    \/ ExtractReviews
    \/ ExitDetail
    \/ SaveRecord

Spec == Init /\ [][Next]_vars

(***************************************************************************)
(* Count discovery on its own: get_job_posts stands at line 202 with the   *)
(* search page of the first city loaded, for every pair of indicators.     *)
(***************************************************************************)
InitCount ==
    /\ pc = "count"
    /\ qi = 1
    /\ jobCount \in IndicatorTexts
    /\ searchCountPages \in IndicatorTexts
    /\ cards = << >>
    /\ selected = -1
    /\ ctx = "default"
    /\ number_of_pages = InitialPages
    /\ total_jobs = Unbound
    /\ job_count = 0
    /\ pages_scraped = 0
    /\ jobs_scraped = 0
    /\ page = 0
    /\ i = 0
    /\ fields = EmptyFields
    /\ store = [c \in {Cities[k] : k \in 1..Len(Cities)} |-> NoFile]
    /\ navs = <<0>>
    /\ started = <<Cities[1]>>
    /\ emitted = << >>
    /\ missed = {}
    /\ enters = 0
    /\ exits = 0
    /\ file0 = NoFile
    /\ listed = 0
    /\ failure = "none"

NextCount == CountPrimary \/ CountSecondary

SpecCount == InitCount /\ [][NextCount]_vars

(***************************************************************************)
(* Properties.                                                             *)
(***************************************************************************)
Records == {emitted[k] : k \in 1..Len(emitted)}

\* C1: a failure of a per-card step (locating the card again, scrolling it
\* into view, clicking it, extracting a field) never aborts the run: nothing
\* raised by the card steps leaves get_job_posts.
C1_CardFailureContained == failure \notin {"relocate", "scroll"}

\* The column a local variable is written to, and the documented defaults.
FieldColumn ==
    [f \in FieldNames \ {"contact"} |->
        CASE f = "job_title" -> "Job Title"
          [] f = "salary" -> "Salary"
          [] f = "job_type" -> "Job Type"
          [] f = "location" -> "Location"
          [] f = "company_name" -> "Company Name"
          [] f = "date_posted" -> "Date Posted"
          [] f = "reviews" -> "Reviews"
          [] f = "job_url" -> "Job URL"
          [] f = "listing_url" -> "Listing URL"]
DocumentedDefault(f) ==
    CASE f = "job_type" -> "Full-Time"
      [] f = "date_posted" -> "Today"
      [] f = "reviews" -> "Reviews Not Found"
      [] OTHER -> ""

\* C2: in every record written, a field whose extraction failed on that card
\* holds the documented default of the field.
C2_MissedFieldIsDefault ==
    \A r \in Records : \A f \in r.missed :
        r.post[FieldColumn[f]] = DocumentedDefault(f)

\* C3: context entry and exit are paired, and the default context is active
\* when a card's extraction starts, when its record is written, and after the
\* last card of a page.
C3_ContextPaired ==
    /\ pc \in {"select", "save", "loop"} => ctx = "default"
    /\ pc \in {"select", "loop"} => enters = exits
    /\ pc = "save" => enters = Len(emitted) + 1 /\ exits = enters
    /\ \A r \in Records : r.ctx = "default"

\* C4: job_count and pages_scraped advance in lockstep, by 10 and by 1 per
\* page; the k-th page navigation requests start = 1510 + 10*k; the page loop
\* is left for main exactly when pages_scraped >= number_of_pages.
C4_PaginationLockstep ==
    /\ [](job_count - 10 * pages_scraped = 1510 - 10 * 151)
    /\ [](\A k \in 2..Len(navs) : navs[k] = 1510 + 10 * (k - 2))
    /\ [][pages_scraped' # pages_scraped /\ pc = "loop"
            => pages_scraped' = pages_scraped + 1 /\ job_count' = job_count + 10]_vars
    /\ [][pc = "loop" => (pc' = "main" <=> pages_scraped >= number_of_pages)]_vars
    /\ [][pc # "main" /\ pc' = "main" => pc = "loop"]_vars

C4_Witness ==
    /\ pc = "main"
    /\ number_of_pages = 153
    /\ pages_scraped = 153
    /\ navs = <<0, 1510, 1520>>

\* C5: the file of the city holds what it held when the Query started (a
\* header alone, written once, if it did not exist), followed by the records
\* of the Query in extraction order; a write to an existing file keeps every
\* earlier row in place and adds no header.
C5_SinkAppendOnly ==
    /\ [](qi >= 1 =>
            store[city].rows =
                (IF file0.exists THEN file0.rows
                 ELSE IF emitted = << >> THEN << >> ELSE <<HeaderRow>>)
                \o [k \in 1..Len(emitted) |-> RecordRow(emitted[k].post)])
    /\ [](\A c \in DOMAIN store :
            ~store[c].exists \/
            (/\ store[c].rows[1] = HeaderRow
             /\ \A k \in 2..Len(store[c].rows) : store[c].rows[k].kind = "record"))
    /\ [][\A c \in DOMAIN store : store[c].exists =>
            /\ store'[c].exists
            /\ Len(store'[c].rows) >= Len(store[c].rows)
            /\ SubSeq(store'[c].rows, 1, Len(store[c].rows)) = store[c].rows]_vars

C5_Witness ==
    /\ qi >= 1
    /\ ~file0.exists
    /\ Len(emitted) = 2
    /\ Len(store[city].rows) = 3
    /\ emitted[1].post # emitted[2].post

\* C6: when the results list never becomes visible the exception leaves
\* main: no navigation is issued afterwards (none is ever issued twice), no
\* record of the failed page is written, and the store stays as it is.
C6_VisibilityFailureFatal ==
    /\ [](failure = "visibility" =>
            /\ pc = "crashed"
            /\ \A r \in Records : r.start # navs[Len(navs)])
    /\ [](\A j, k \in 1..Len(navs) : j < k => navs[j] < navs[k])
    /\ [][failure = "visibility" => UNCHANGED <<navs, store, started, emitted>>]_vars

C6_Witness ==
    /\ failure = "visibility"
    /\ navs = <<0, 1510, 1520>>
    /\ Len(emitted) >= 1

\* C7: in every record written, Job URL equals Listing URL.
C7_JobUrlAliasesListingUrl ==
    \A r \in Records : r.post["Job URL"] = r.post["Listing URL"]

\* The indicator can be read: it is there and its stripped text holds a digit.
Readable(indicator) ==
    /\ indicator # Absent
    /\ \E k \in 1..Len(CountText(indicator)) : CharAt(CountText(indicator), k) \in DigitChars
\* The first integer token of t: the longest run of digits that starts at the
\* first digit of t.
FirstToken(t) ==
    LET isDigit(k) == CharAt(t, k) \in DigitChars
        a == CHOOSE k \in 1..Len(t) : isDigit(k) /\ \A m \in 1..(k - 1) : ~isDigit(m)
        b == CHOOSE k \in a..Len(t) :
                /\ \A m \in a..k : isDigit(m)
                /\ k = Len(t) \/ ~isDigit(k + 1)
    IN  SubSeq(t, a, b)
\* p is total / 10 rounded to the nearest integer, a tie going to the even one.
IsRoundedTenth(p, total) ==
    LET twice == IF 20 * p >= 2 * total THEN 20 * p - 2 * total ELSE 2 * total - 20 * p
    IN  /\ twice <= 10
        /\ twice = 10 => p % 2 = 0

\* C8: after count discovery, number_of_pages is round(total_jobs / 10) with
\* total_jobs the first integer token of the stripped text of the primary
\* indicator if it can be read, else of the secondary indicator if that can
\* be read, else number_of_pages is 25.
C8_CountDiscovery ==
    pc = "checkpoint" =>
        LET source == IF Readable(jobCount) THEN jobCount
                      ELSE IF Readable(searchCountPages) THEN searchCountPages
                      ELSE Absent
        IN  /\ IF source = Absent
               THEN number_of_pages = 25
               ELSE /\ total_jobs = FirstToken(CountText(source))
                    /\ IsRoundedTenth(number_of_pages, ToInt(total_jobs))
            /\ jobCount = "1,234 jobs Page 1 of" =>
                    total_jobs = "1234" /\ number_of_pages = 123

C8_Witness ==
    /\ pc = "checkpoint"
    /\ jobCount = "Page 1 of"
    /\ searchCountPages = "1,525 jobs"
    /\ total_jobs = "1525"
    /\ number_of_pages = 152

\* C9: the page loop starts at pages_scraped = 151, job_count = 1510; a Query
\* that returns has navigated max(0, number_of_pages - 151) result pages; with
\* number_of_pages <= 151 no result page is requested and the store of the
\* Query is left as it was.
C9_CheckpointSkipsPages ==
    /\ Len(navs) >= 2 => navs[2] = 1510 /\ pages_scraped > 151
    /\ pc = "main" /\ qi >= 1 =>
          Len(navs) - 1 = IF number_of_pages > 151 THEN number_of_pages - 151 ELSE 0
    /\ qi >= 1 /\ number_of_pages <= 151 =>
          /\ Len(navs) <= 1
          /\ emitted = << >>
          /\ store[city] = file0

C9_Witness ==
    /\ pc = "main"
    /\ qi = 1
    /\ number_of_pages = 25
    /\ navs = <<0>>
    /\ pages_scraped = 151

\* C10: pipelines are started in the order of the city list, each only once
\* the one before has returned to main; a fatal failure leaves main, and no
\* pipeline is started after it.
C10_QueriesInOrder ==
    /\ [](started = SubSeq(Cities, 1, qi))
    /\ [](failure # "none" => pc = "crashed")
    /\ [][started' # started => pc = "main" /\ failure = "none"]_vars
    /\ [][pc # "crashed"]_vars

C10_Witness ==
    /\ pc = "crashed"
    /\ started = <<Cities[1]>>
    /\ Len(navs) >= 2

====
